---- MODULE Spec2Model ----
(***************************************************************************)
(* Model of the Asset Preview node (PreviewInstanceRow / AssetPreviewNode): *)
(* payload resolution over the edge list and the two registries, strict    *)
(* mode selection, the "production gate" publish effect and the layer      *)
(* compositor.                                                             *)
(***************************************************************************)
EXTENDS Integers, Sequences, FiniteSets, TLC

VARIABLES
    edges,             \* useEdges(): the ordered edge list of the graph
    payloadRegistry,   \* raw registry:      <<node, handle>> -> payload
    reviewerRegistry,  \* approved registry: <<node, handle>> -> payload
    psdRegistry,       \* sourceNodeId -> decoded PSD
    templateRegistry,  \* sequence of TemplateMetadata (Object.values order)
    build,             \* which of the two copies of the component is mounted
    dataInstanceCount, \* node.data.instanceCount per preview node (0: unset)
    previewInstances,  \* node.data.previewInstances per preview node
    closure,           \* displayPayload captured by each row's last render
    pendingPublish,    \* rows whose publish effect is queued by the last commit
    pendingComposite,  \* rows whose compositor effect is queued by the last commit
    localPreview,      \* useState localPreview per row
    renderError        \* useState renderError per row

graphVars == <<edges, payloadRegistry, reviewerRegistry>>
assetVars == <<psdRegistry, templateRegistry, build>>
nodeVars  == <<dataInstanceCount, previewInstances>>
rowVars   == <<closure, pendingPublish, pendingComposite, localPreview, renderError>>
vars      == <<graphVars, assetVars, nodeVars, rowVars>>

----------------------------------------------------------------------------
\* Bounds of the model

MaxEdges == 3
MaxInstances == 2
\* layers of a payload composited under SpecComp
MaxLayers == 3

----------------------------------------------------------------------------
\* Values

\* JavaScript undefined / null for a payload, an edge, a PSD, an image.
Undefined == [undefined |-> TRUE]

\* A handle id "<name>-<idx>" is kept as its two parts.
Handle(name, idx) == [name |-> name, idx |-> idx]
\* sourceHandle of an edge drawn from a node's default handle (null).
NullHandle == [name |-> "null", idx |-> 0]
\* The empty string ''.
EmptyHandle == [name |-> "", idx |-> 0]

\* `payload-in-${index}`
PayloadIn(index) == Handle("payload-in", index)
\* `preview-out-${index}`
PreviewOut(index) == Handle("preview-out", index)

\* JavaScript truthiness of a handle string.
Truthy(h) == h # NullHandle /\ h # EmptyHandle
\* sourceHandle || ''
OrEmpty(h) == IF Truthy(h) THEN h ELSE EmptyHandle
\* sourceHandle?.replace('polished-out', 'payload-in')
ReplacePolishedOut(h) ==
    IF h = NullHandle THEN NullHandle
    ELSE IF h.name = "polished-out" THEN [h EXCEPT !.name = "payload-in"]
    ELSE h

\* registry[node]?.[handle]
Lookup(registry, node, handle) ==
    IF <<node, handle>> \in DOMAIN registry THEN registry[<<node, handle>>]
    ELSE Undefined

\* registry with registry[node][handle] = payload, every other entry kept.
Store(registry, node, handle, payload) ==
    [k \in DOMAIN registry \cup {<<node, handle>>} |->
        IF k = <<node, handle>> THEN payload ELSE registry[k]]

\* edges.find(e => e.target === node && e.targetHandle === handle):
\* the first edge of the list that matches, or Undefined.
FindEdge(es, node, handle) ==
    LET hits == {j \in 1..Len(es) :
                    es[j].target = node /\ es[j].targetHandle = handle}
    IN  IF hits = {} THEN Undefined
        ELSE es[CHOOSE j \in hits : \A k \in hits : j <= k]

----------------------------------------------------------------------------
\* Payload resolution and selection of one row (nodeId, index), computed from
\* a given edge list and given registries.

\* An upstream trace that matches the node and not the handle of the row.
upstreamEdgeAnyHandle(es, nodeId, index) ==
    LET hits == {j \in 1..Len(es) : es[j].target = nodeId}
    IN  IF hits = {} THEN Undefined
        ELSE es[CHOOSE j \in hits : \A k \in hits : j <= k]

upstreamEdgeIn(es, nodeId, index) == FindEdge(es, nodeId, PayloadIn(index))

\* A polished lookup keyed by the upstream node's input handle.
polishedPayloadByInput(es, approved, nodeId, index) ==
    LET e == upstreamEdgeIn(es, nodeId, index)
    IN  IF e = Undefined THEN Undefined
        ELSE Lookup(approved, e.source, ReplacePolishedOut(e.sourceHandle))

polishedPayloadIn(es, approved, nodeId, index) ==
    LET e == upstreamEdgeIn(es, nodeId, index)
    IN  IF e = Undefined THEN Undefined
        ELSE Lookup(approved, e.source, OrEmpty(e.sourceHandle))

\* A trace that falls back to the upstream node's own raw entry when the
\* grandparent has published nothing.
proceduralPayloadLenient(es, raw, nodeId, index) ==
    LET e == upstreamEdgeIn(es, nodeId, index)
    IN  IF e = Undefined THEN Undefined
        ELSE LET upstreamInputHandle == ReplacePolishedOut(e.sourceHandle)
                 grandparentEdge ==
                     IF Truthy(upstreamInputHandle)
                     THEN FindEdge(es, e.source, upstreamInputHandle)
                     ELSE Undefined
                 own == Lookup(raw, e.source, OrEmpty(e.sourceHandle))
             IN  IF grandparentEdge # Undefined
                    /\ Lookup(raw, grandparentEdge.source,
                              OrEmpty(grandparentEdge.sourceHandle)) # Undefined
                 THEN Lookup(raw, grandparentEdge.source,
                             OrEmpty(grandparentEdge.sourceHandle))
                 ELSE own

proceduralPayloadIn(es, raw, nodeId, index) ==
    LET e == upstreamEdgeIn(es, nodeId, index)
    IN  IF e = Undefined THEN Undefined
        ELSE LET upstreamInputHandle == ReplacePolishedOut(e.sourceHandle)
                 grandparentEdge ==
                     IF Truthy(upstreamInputHandle)
                     THEN FindEdge(es, e.source, upstreamInputHandle)
                     ELSE Undefined
             IN  IF grandparentEdge # Undefined
                 THEN Lookup(raw, grandparentEdge.source,
                             OrEmpty(grandparentEdge.sourceHandle))
                 ELSE Lookup(raw, e.source, OrEmpty(e.sourceHandle))

\* previewInstances[i] || { currentMode: 'PROCEDURAL' }
RowState(instances, index) ==
    IF index \in DOMAIN instances THEN instances[index]
    ELSE [currentMode |-> "PROCEDURAL"]

\* Selection that shows the other mode's payload when the selected one is
\* missing.
displayPayloadFallback(es, raw, approved, instances, nodeId, index) ==
    LET polished == polishedPayloadIn(es, approved, nodeId, index)
        procedural == proceduralPayloadIn(es, raw, nodeId, index)
    IN  IF RowState(instances, index).currentMode = "POLISHED"
        THEN (IF polished # Undefined THEN polished ELSE procedural)
        ELSE (IF procedural # Undefined THEN procedural ELSE polished)

displayPayloadIn(es, raw, approved, instances, nodeId, index) ==
    IF RowState(instances, index).currentMode = "POLISHED"
    THEN polishedPayloadIn(es, approved, nodeId, index)
    ELSE proceduralPayloadIn(es, raw, nodeId, index)

----------------------------------------------------------------------------
\* Compositor: origin resolution, pixel lookup and the draw list.
\* A layer is [id, name, type, isVisible, coords, opacity, transform,
\* children]; children is a sequence (an absent children array and an empty
\* one are traversed alike by every loop below).

\* let minX = Infinity: larger than every coordinate of the model.
Infinity == 1000000

\* tmpl.containers.find(c => c.name === targetContainer)
FindContainer(containers, targetContainer) ==
    LET hits == {j \in 1..Len(containers) : containers[j].name = targetContainer}
    IN  IF hits = {} THEN Undefined
        ELSE containers[CHOOSE j \in hits : \A k \in hits : j <= k]

\* for (const tmpl of allTemplates) { ...; if (cont) { ...; break; } }
RECURSIVE FirstContainer(_, _)
FirstContainer(templates, targetContainer) ==
    IF templates = <<>> THEN Undefined
    ELSE LET cont == FindContainer(Head(templates).containers, targetContainer)
         IN  IF cont # Undefined THEN cont
             ELSE FirstContainer(Tail(templates), targetContainer)

\* A minimum search that also counts invisible layers and their subtrees.
RECURSIVE findMinAll(_, _)
findMinAll(layers, acc) ==
    IF layers = <<>> THEN acc
    ELSE LET l == Head(layers)
             own == [minX |-> IF l.coords.x < acc.minX THEN l.coords.x ELSE acc.minX,
                     minY |-> IF l.coords.y < acc.minY THEN l.coords.y ELSE acc.minY]
         IN  findMinAll(Tail(layers), findMinAll(l.children, own))

\* findMin: layers.forEach, updating the running minima; the children of an
\* invisible layer are not visited.
RECURSIVE findMin(_, _)
findMin(layers, acc) ==
    IF layers = <<>> THEN acc
    ELSE LET l == Head(layers)
             own == [minX |-> IF l.coords.x < acc.minX THEN l.coords.x ELSE acc.minX,
                     minY |-> IF l.coords.y < acc.minY THEN l.coords.y ELSE acc.minY]
             after == IF l.isVisible THEN findMin(l.children, own) ELSE acc
         IN  findMin(Tail(layers), after)

\* The origin (originX, originY) of the coordinate normalization.
Origin(payload, templates) ==
    LET cont == FirstContainer(templates, payload.targetContainer)
        m == findMin(payload.layers, [minX |-> Infinity, minY |-> Infinity])
    IN  IF cont # Undefined THEN [x |-> cont.bounds.x, y |-> cont.bounds.y]
        ELSE IF Len(payload.layers) > 0
             THEN [x |-> IF m.minX # Infinity THEN m.minX ELSE 0,
                   y |-> IF m.minY # Infinity THEN m.minY ELSE 0]
             ELSE [x |-> 0, y |-> 0]

\* findLayerByPath(psd, id): the decoded layer at the index path id, or
\* Undefined. A decoded layer is [name, canvas, children]; canvas 0 is "no
\* canvas".
RECURSIVE LayerAtPath(_, _)
LayerAtPath(children, path) ==
    IF path = <<>> \/ Head(path) \notin 1..Len(children) THEN Undefined
    ELSE IF Len(path) = 1 THEN children[Head(path)]
    ELSE LayerAtPath(children[Head(path)].children, Tail(path))

findLayerByPath(psd, id) == LayerAtPath(psd.children, id)

\* findPixelsRecursive: the canvas of the first decoded layer, in document
\* order, whose name is targetName and which has a canvas; 0 when none.
RECURSIVE findPixelsRecursive(_, _)
findPixelsRecursive(children, targetName) ==
    IF children = <<>> THEN 0
    ELSE LET layer == Head(children)
             found == findPixelsRecursive(layer.children, targetName)
         IN  IF layer.name = targetName /\ layer.canvas # 0 THEN layer.canvas
             ELSE IF found # 0 THEN found
             ELSE findPixelsRecursive(Tail(children), targetName)

\* The canvas the compositor draws for a non-generative layer; 0 when none.
PixelSource(psd, layer) ==
    LET directLayer == findLayerByPath(psd, layer.id)
    IN  IF directLayer # Undefined /\ directLayer.canvas # 0 THEN directLayer.canvas
        ELSE findPixelsRecursive(psd.children, layer.name)

\* One draw operation on the canvas, tagged with the layer it is drawn for.
DrawOp(kind, layer, x, y, rotation, alpha, source, label) ==
    [kind |-> kind, layer |-> layer.id, x |-> x, y |-> y,
     w |-> layer.coords.w, h |-> layer.coords.h,
     rotation |-> rotation, alpha |-> alpha, source |-> source, label |-> label]

\* A loop body that strokes the wireframe at the layer's own coordinates,
\* without taking the origin off.
DrawSelfUnshifted(layer, psd, origin) ==
    LET localX == layer.coords.x - origin.x
        localY == layer.coords.y - origin.y
        pixelSource == PixelSource(psd, layer)
    IN  IF layer.type = "generative"
        THEN DrawOp("placeholder", layer, localX, localY, 0, 100, 0, FALSE)
        ELSE IF pixelSource # 0
        THEN DrawOp("image", layer, localX, localY, layer.transform.rotation,
                    layer.opacity, pixelSource, FALSE)
        ELSE DrawOp("wireframe", layer, layer.coords.x, layer.coords.y, 0, 100, 0,
                    layer.coords.h > 12)

\* The body of the loop of drawLayers between ctx.save() and ctx.restore().
DrawSelf(layer, psd, origin) ==
    LET localX == layer.coords.x - origin.x
        localY == layer.coords.y - origin.y
        pixelSource == PixelSource(psd, layer)
    IN  IF layer.type = "generative"
        THEN DrawOp("placeholder", layer, localX, localY, 0, 100, 0, FALSE)
        ELSE IF pixelSource # 0
        THEN DrawOp("image", layer, localX, localY, layer.transform.rotation,
                    layer.opacity, pixelSource, FALSE)
        ELSE DrawOp("wireframe", layer, localX, localY, 0, 100, 0,
                    layer.coords.h > 12)

\* A traversal that skips an invisible layer but still descends into it.
RECURSIVE drawLayersDescending(_, _, _)
drawLayersDescending(layers, psd, origin) ==
    IF layers = <<>> THEN <<>>
    ELSE LET layer == layers[Len(layers)]
             before == SubSeq(layers, 1, Len(layers) - 1)
             here == drawLayersDescending(layer.children, psd, origin)
                        \o (IF layer.isVisible THEN <<DrawSelf(layer, psd, origin)>>
                            ELSE <<>>)
         IN  here \o drawLayersDescending(before, psd, origin)

\* A traversal from the first layer to the last.
RECURSIVE drawLayersForward(_, _, _)
drawLayersForward(layers, psd, origin) ==
    IF layers = <<>> THEN <<>>
    ELSE LET layer == Head(layers)
             here == IF ~layer.isVisible THEN <<>>
                     ELSE drawLayersForward(layer.children, psd, origin)
                            \o <<DrawSelf(layer, psd, origin)>>
         IN  here \o drawLayersForward(Tail(layers), psd, origin)

\* drawLayers: for (i = layers.length - 1; i >= 0; i--), skipping invisible
\* layers, children first. The result is the list of draw operations in the
\* order they reach the canvas.
RECURSIVE drawLayers(_, _, _)
drawLayers(layers, psd, origin) ==
    IF layers = <<>> THEN <<>>
    ELSE LET layer == layers[Len(layers)]
             before == SubSeq(layers, 1, Len(layers) - 1)
             here == IF ~layer.isVisible THEN <<>>
                     ELSE drawLayers(layer.children, psd, origin)
                            \o <<DrawSelf(layer, psd, origin)>>
         IN  here \o drawLayers(before, psd, origin)

\* canvas.toDataURL(...) of a w x h canvas painted with the draw list ops.
DataUrl(w, h, ops) == [kind |-> "canvas", w |-> w, h |-> h, ops |-> ops]

\* A compositor that paints onto the canvas of the image before instead of a
\* new one.
CompositeOver(display, psds, templates, ctx, preview, error) ==
    IF display = Undefined THEN [preview |-> Undefined, error |-> Undefined]
    ELSE IF display.sourceNodeId \notin DOMAIN psds
    THEN [preview |-> IF display.previewUrl # Undefined
                      THEN display.previewUrl ELSE preview,
          error |-> error]
    ELSE IF display.metrics.target.w = 0 \/ display.metrics.target.h = 0
    THEN [preview |-> preview, error |-> error]
    ELSE IF ~ctx THEN [preview |-> preview, error |-> error]
    ELSE LET origin == Origin(display, templates)
             psd == psds[display.sourceNodeId]
             under == IF preview # Undefined /\ preview.kind = "canvas"
                      THEN preview.ops ELSE <<>>
         IN  [preview |-> DataUrl(display.metrics.target.w, display.metrics.target.h,
                                  under \o drawLayers(display.layers, psd, origin)),
              error |-> Undefined]

\* The compositor effect of a row: the new (localPreview, renderError) from
\* the displayed payload of the render, the asset stores and the row's
\* previous values. ctx is the outcome of canvas.getContext('2d').
Composite(display, psds, templates, ctx, preview, error) ==
    IF display = Undefined THEN [preview |-> Undefined, error |-> Undefined]
    ELSE IF display.sourceNodeId \notin DOMAIN psds
    THEN [preview |-> IF display.previewUrl # Undefined
                      THEN display.previewUrl ELSE preview,
          error |-> error]
    ELSE IF display.metrics.target.w = 0 \/ display.metrics.target.h = 0
    THEN [preview |-> preview, error |-> error]
    ELSE IF ~ctx THEN [preview |-> preview, error |-> error]
    ELSE LET origin == Origin(display, templates)
             psd == psds[display.sourceNodeId]
         IN  [preview |-> DataUrl(display.metrics.target.w, display.metrics.target.h,
                                  drawLayers(display.layers, psd, origin)),
              error |-> Undefined]

\* The repository holds the component twice. The copy of
\* components/AssetPreviewNode.tsx resolves, selects and publishes like the
\* other one and traverses the layers alike, but its compositor differs: the
\* canvas is shifted once by ctx.translate(-originX, -originY), a pixel layer
\* is looked up by path only, and a missing PSD is reported as an error.
Builds == {"part_000", "components"}

\* The loop body of that copy. On the shifted canvas a rectangle drawn at
\* (x, y) lands at (x - originX, y - originY); the image is drawn centred on
\* (x + w/2, y + h/2), rotated about that centre, so its unrotated top-left
\* corner is the same point.
DrawSelfLegacy(layer, psd, origin) ==
    LET localX == layer.coords.x - origin.x
        localY == layer.coords.y - origin.y
        originalLayer == findLayerByPath(psd, layer.id)
    IN  IF layer.type = "generative"
        THEN DrawOp("placeholder", layer, localX, localY, 0, 100, 0, FALSE)
        ELSE IF originalLayer # Undefined /\ originalLayer.canvas # 0
        THEN DrawOp("image", layer, localX, localY, layer.transform.rotation,
                    layer.opacity, originalLayer.canvas, FALSE)
        ELSE DrawOp("wireframe", layer, localX, localY, 0, 100, 0,
                    layer.coords.h > 10)

RECURSIVE drawLayersLegacy(_, _, _)
drawLayersLegacy(layers, psd, origin) ==
    IF layers = <<>> THEN <<>>
    ELSE LET layer == layers[Len(layers)]
             before == SubSeq(layers, 1, Len(layers) - 1)
             here == IF ~layer.isVisible THEN <<>>
                     ELSE drawLayersLegacy(layer.children, psd, origin)
                            \o <<DrawSelfLegacy(layer, psd, origin)>>
         IN  here \o drawLayersLegacy(before, psd, origin)

\* The message of setRenderError when the PSD is not in the registry.
BinaryMissing ==
    [message |-> "Binary PSD data not loaded. Please ensure LoadPSD is active."]

\* The compositor effect of that copy.
CompositeLegacy(display, psds, templates, ctx, preview, error) ==
    IF display = Undefined THEN [preview |-> Undefined, error |-> Undefined]
    ELSE IF display.sourceNodeId \notin DOMAIN psds
    THEN IF display.previewUrl # Undefined
         THEN [preview |-> display.previewUrl, error |-> Undefined]
         ELSE [preview |-> Undefined, error |-> BinaryMissing]
    ELSE IF display.metrics.target.w = 0 \/ display.metrics.target.h = 0
    THEN [preview |-> preview, error |-> error]
    ELSE IF ~ctx THEN [preview |-> preview, error |-> error]
    ELSE LET origin == Origin(display, templates)
             psd == psds[display.sourceNodeId]
         IN  [preview |-> DataUrl(display.metrics.target.w, display.metrics.target.h,
                                  drawLayersLegacy(display.layers, psd, origin)),
              error |-> Undefined]

\* The compositor effect of the copy that is mounted.
CompositeOf(b, display, psds, templates, ctx, preview, error) ==
    IF b = "components"
    THEN CompositeLegacy(display, psds, templates, ctx, preview, error)
    ELSE Composite(display, psds, templates, ctx, preview, error)

----------------------------------------------------------------------------
\* The graph, the payloads and the assets the behaviours are drawn from.

PreviewNodes == {"prevA", "prevB"}
UpstreamNodes == {"rem", "rev"}

Layer(id, name, type, isVisible, x, y, children) ==
    [id |-> id, name |-> name, type |-> type, isVisible |-> isVisible,
     coords |-> [x |-> x, y |-> y, w |-> 20, h |-> 20],
     opacity |-> 100, transform |-> [rotation |-> 0], children |-> children]

Payload(container, layers, isPolished) ==
    [sourceNodeId |-> "psd1", targetContainer |-> container,
     metrics |-> [target |-> [w |-> 100, h |-> 50]],
     layers |-> layers, previewUrl |-> Undefined, isPolished |-> isPolished]

\* What the remapper publishes, what a node wired in the reviewer's place
\* publishes as raw, and what the reviewer signs.
RawA == Payload("hero", <<Layer(<<1>>, "logo", "pixel", TRUE, 10, 10, <<>>)>>, FALSE)
RawB == Payload("band", <<Layer(<<1>>, "logo", "pixel", TRUE, 30, 40, <<>>),
                          Layer(<<2>>, "glow", "generative", TRUE, 5, 60, <<>>)>>, FALSE)
PolA == Payload("hero", <<Layer(<<1>>, "logo", "pixel", TRUE, 12, 8, <<>>)>>, TRUE)

ResultOut == Handle("result-out", 0)
PolishedOut == Handle("polished-out", 0)

\* Entries upstream nodes publish: <<node, handle, payload>>.
RawOffers == {<<"rem", ResultOut, RawA>>, <<"rem", EmptyHandle, RawB>>,
              <<"rev", PolishedOut, RawB>>}
ReviewerOffers == {<<"rev", PolishedOut, PolA>>}

Edge(source, sourceHandle, target, targetHandle) ==
    [source |-> source, sourceHandle |-> sourceHandle,
     target |-> target, targetHandle |-> targetHandle]

\* The connections the user can draw.
Connectable ==
    {Edge("rem", ResultOut, "rev", PayloadIn(0)),
     Edge("rem", NullHandle, "rev", PayloadIn(0)),
     Edge("rev", PolishedOut, "prevA", PayloadIn(0)),
     Edge("rem", NullHandle, "prevA", PayloadIn(0))}

Psd1 == [children |-> <<[name |-> "logo", canvas |-> 1, children |-> <<>>]>>]
Template1 == [containers |-> <<[name |-> "hero", bounds |-> [x |-> 2, y |-> 3]]>>]

EmptyRegistry == [k \in {} |-> Undefined]

----------------------------------------------------------------------------
\* The rows of the current state.

\* data.instanceCount || 1
InstanceCountOf(count) == IF count = 0 THEN 1 ELSE count
instanceCount(nodeId) == InstanceCountOf(dataInstanceCount[nodeId])

\* Array.from({ length: instanceCount }): the rows <<nodeId, index>>.
RowsOf(counts) ==
    {r \in PreviewNodes \X (0..MaxInstances) : r[2] < InstanceCountOf(counts[r[1]])}
Rows == RowsOf(dataInstanceCount)

upstreamEdge(r) == upstreamEdgeIn(edges, r[1], r[2])
polishedPayload(r) == polishedPayloadIn(edges, reviewerRegistry, r[1], r[2])
proceduralPayload(r) == proceduralPayloadIn(edges, payloadRegistry, r[1], r[2])
activeMode(r) == RowState(previewInstances[r[1]], r[2]).currentMode
displayPayload(r) ==
    displayPayloadIn(edges, payloadRegistry, reviewerRegistry,
                     previewInstances[r[1]], r[1], r[2])
isPolishedAvailable(r) == polishedPayload(r) # Undefined
\* A flag computed from the displayed payload instead of the raw candidate.
isDisplayedAvailable(r) == displayPayload(r) # Undefined
isProceduralAvailable(r) == proceduralPayload(r) # Undefined

\* The visualization area of a row as the render draws it: "Waiting for
\* Payload..." without a displayed payload and without an error, the error
\* message when there is one, and otherwise the image of localPreview or,
\* without one, the "Synthesizing..." pulse.
Visualization(display, preview, error) ==
    IF display = Undefined /\ error = Undefined THEN [kind |-> "waiting"]
    ELSE IF error # Undefined THEN [kind |-> "error", message |-> error]
    ELSE IF preview # Undefined THEN [kind |-> "image", src |-> preview]
    ELSE [kind |-> "synthesizing"]

\* A header label that looks at the displayed payload only.
HeaderLabelByPayload(edge, display) ==
    IF display # Undefined /\ display.targetContainer # ""
    THEN display.targetContainer
    ELSE "Connect Reviewer"

\* The header label of a row: {upstreamEdge ? (displayPayload?.targetContainer
\* || 'Connected') : 'Connect Reviewer'}.
HeaderLabel(edge, display) ==
    IF edge = Undefined THEN "Connect Reviewer"
    ELSE IF display # Undefined /\ display.targetContainer # ""
    THEN display.targetContainer
    ELSE "Connected"

visualization(r) == Visualization(displayPayload(r), localPreview[r], renderError[r])
headerLabel(r) == HeaderLabel(upstreamEdge(r), displayPayload(r))

\* What a row renders: the input handle's style, the header label, whether
\* the dimensions and the audit badges are shown, the two mode buttons, the
\* highlighted mode and the visualization area.
rowView(r) ==
    [connected |-> upstreamEdge(r) # Undefined,
     label |-> headerLabel(r),
     stats |-> displayPayload(r) # Undefined,
     proceduralDisabled |-> ~isProceduralAvailable(r),
     polishedDisabled |-> ~isPolishedAvailable(r),
     mode |-> activeMode(r),
     area |-> visualization(r)]

\* A copy that keeps the producer's flag.
signedOffUnsigned(payload) == payload

\* { ...displayPayload, isPolished: true }
signedOffPayload(payload) == [payload EXCEPT !.isPolished = TRUE]

\* The store's registerReviewerPayload(nodeId, handleId, payload).
registerReviewerPayload(registry, nodeId, handleId, payload) ==
    Store(registry, nodeId, handleId, payload)

\* The key a row publishes under.
OwnKey(r) == <<r[1], PreviewOut(r[2])>>

\* A publish effect that clears the row's entry when nothing is displayed.
PublishedOrCleared(registry, r, display) ==
    IF display # Undefined
    THEN registerReviewerPayload(registry, r[1], PreviewOut(r[2]),
                                 signedOffPayload(display))
    ELSE [k \in DOMAIN registry \ {<<r[1], PreviewOut(r[2])>>} |-> registry[k]]

\* A publish effect that always writes under preview-out-0.
PublishedFirstHandle(registry, r, display) ==
    IF display # Undefined
    THEN registerReviewerPayload(registry, r[1], PreviewOut(0),
                                 signedOffPayload(display))
    ELSE registry

\* The body of the publish effect of row r: the approved registry it leaves
\* when the render displayed display.
Published(registry, r, display) ==
    IF display # Undefined
    THEN registerReviewerPayload(registry, r[1], PreviewOut(r[2]),
                                 signedOffPayload(display))
    ELSE registry

----------------------------------------------------------------------------
\* Rendering. A change of the graph, of a store or of the node data renders
\* every row again: each row captures its displayPayload, and React queues
\* the effects whose dependencies changed (all of them for a row that
\* mounts). The queued effects run before anything else is handled.

Quiescent == pendingPublish = {} /\ pendingComposite = {}

\* React runs the queued effects in the order of the component tree: node by
\* node, row by row, and within a row in the order the effects are declared
\* (the publish effect, then the compositor effect).
Before(r, q) ==
    \/ (r[1] = "prevA" /\ q[1] = "prevB")
    \/ (r[1] = q[1] /\ r[2] < q[2])
NextPublish(r) ==
    /\ r \in pendingPublish
    /\ \A q \in pendingPublish \cup pendingComposite : ~Before(q, r)
NextComposite(r) ==
    /\ r \in pendingComposite
    /\ \A q \in pendingPublish : q # r /\ ~Before(q, r)
    /\ \A q \in pendingComposite : ~Before(q, r)

\* The commit that follows a change to the state (es, raw, approved,
\* instances, counts); assets tells whether psdRegistry or templateRegistry
\* changed. pp and pc are the effects of the last commit still to run: while
\* any is left the next render waits.
Commit(es, raw, approved, instances, counts, assets, pp, pc) ==
    LET rows == RowsOf(counts)
        display(r) == displayPayloadIn(es, raw, approved, instances[r[1]], r[1], r[2])
        changed == {r \in rows : r \notin DOMAIN closure \/ display(r) # closure[r]}
    IN  IF pp \cup pc # {}
        THEN /\ closure' = closure
             /\ pendingPublish' = pp
             /\ pendingComposite' = pc
        ELSE /\ closure' = [r \in rows |-> display(r)]
             /\ pendingPublish' = changed
             /\ pendingComposite' = IF assets THEN rows ELSE changed

\* useState(null) of a row that mounts.
Mounted(state, counts) ==
    [r \in RowsOf(counts) |-> IF r \in DOMAIN state THEN state[r] ELSE Undefined]

----------------------------------------------------------------------------
\* Effects of a row

\* 5. Broadcast "Production Gate" Selection
PublishEffect(r) ==
    /\ NextPublish(r)
    /\ LET approved == Published(reviewerRegistry, r, closure[r])
       IN  /\ reviewerRegistry' = approved
           /\ Commit(edges, payloadRegistry, approved, previewInstances,
                     dataInstanceCount, FALSE, pendingPublish \ {r}, pendingComposite)
    /\ UNCHANGED <<edges, payloadRegistry, assetVars, nodeVars, localPreview, renderError>>

\* 6. Compositor
CompositorEffect(r, ctx) ==
    /\ NextComposite(r)
    /\ LET out == CompositeOf(build, closure[r], psdRegistry, templateRegistry, ctx,
                              localPreview[r], renderError[r])
       IN  /\ localPreview' = [localPreview EXCEPT ![r] = out.preview]
           /\ renderError' = [renderError EXCEPT ![r] = out.error]
    /\ Commit(edges, payloadRegistry, reviewerRegistry, previewInstances,
              dataInstanceCount, FALSE, pendingPublish, pendingComposite \ {r})
    /\ UNCHANGED <<graphVars, assetVars, nodeVars>>

----------------------------------------------------------------------------
\* Events of the node

\* A toggle that writes previewInstances without spreading the entries that
\* are there: the modes of the other rows are lost.
handleToggleBare(nodeId, index, mode) ==
    /\ Quiescent
    /\ <<nodeId, index>> \in Rows
    /\ IF mode = "POLISHED" THEN isPolishedAvailable(<<nodeId, index>>)
                            ELSE isProceduralAvailable(<<nodeId, index>>)
    /\ LET instances ==
               [previewInstances EXCEPT ![nodeId] =
                   [i \in {index} |-> [currentMode |-> mode]]]
       IN  /\ previewInstances' = instances
           /\ Commit(edges, payloadRegistry, reviewerRegistry, instances,
                     dataInstanceCount, FALSE, {}, {})
    /\ UNCHANGED <<graphVars, assetVars, dataInstanceCount, localPreview, renderError>>

handleToggle(nodeId, index, mode) ==
    /\ Quiescent
    /\ <<nodeId, index>> \in Rows
    \* the button of a mode is disabled while its payload is not available
    /\ IF mode = "POLISHED" THEN isPolishedAvailable(<<nodeId, index>>)
                            ELSE isProceduralAvailable(<<nodeId, index>>)
    /\ LET currentInstances == previewInstances[nodeId]
           instances ==
               [previewInstances EXCEPT ![nodeId] =
                   [i \in DOMAIN currentInstances \cup {index} |->
                       IF i = index THEN [currentMode |-> mode]
                       ELSE currentInstances[i]]]
       IN  /\ previewInstances' = instances
           /\ Commit(edges, payloadRegistry, reviewerRegistry, instances,
                     dataInstanceCount, FALSE, {}, {})
    /\ UNCHANGED <<graphVars, assetVars, dataInstanceCount, localPreview, renderError>>

\* An add that writes the node data without spreading it: the modes chosen
\* so far are lost.
addInstanceBare(nodeId) ==
    /\ Quiescent
    /\ instanceCount(nodeId) < MaxInstances
    /\ LET counts == [dataInstanceCount EXCEPT ![nodeId] = instanceCount(nodeId) + 1]
           instances == [previewInstances EXCEPT ![nodeId] = [i \in {} |-> Undefined]]
       IN  /\ dataInstanceCount' = counts
           /\ previewInstances' = instances
           /\ localPreview' = Mounted(localPreview, counts)
           /\ renderError' = Mounted(renderError, counts)
           /\ Commit(edges, payloadRegistry, reviewerRegistry, instances,
                     counts, FALSE, {}, {})
    /\ UNCHANGED <<graphVars, assetVars>>

addInstance(nodeId) ==
    /\ Quiescent
    /\ instanceCount(nodeId) < MaxInstances
    /\ LET counts == [dataInstanceCount EXCEPT ![nodeId] = instanceCount(nodeId) + 1]
       IN  /\ dataInstanceCount' = counts
           /\ localPreview' = Mounted(localPreview, counts)
           /\ renderError' = Mounted(renderError, counts)
           /\ Commit(edges, payloadRegistry, reviewerRegistry, previewInstances,
                     counts, FALSE, {}, {})
    /\ UNCHANGED <<graphVars, assetVars, previewInstances>>

----------------------------------------------------------------------------
\* Events of the collaborators: the graph service and the upstream nodes

Connect(e) ==
    /\ Quiescent
    /\ Len(edges) < MaxEdges
    /\ \A j \in 1..Len(edges) : edges[j] # e
    /\ edges' = Append(edges, e)
    /\ Commit(edges', payloadRegistry, reviewerRegistry, previewInstances,
              dataInstanceCount, FALSE, {}, {})
    /\ UNCHANGED <<payloadRegistry, reviewerRegistry, assetVars, nodeVars,
                   localPreview, renderError>>

Disconnect(j) ==
    /\ Quiescent
    /\ j \in 1..Len(edges)
    /\ edges' = SubSeq(edges, 1, j - 1) \o SubSeq(edges, j + 1, Len(edges))
    /\ Commit(edges', payloadRegistry, reviewerRegistry, previewInstances,
              dataInstanceCount, FALSE, {}, {})
    /\ UNCHANGED <<payloadRegistry, reviewerRegistry, assetVars, nodeVars,
                   localPreview, renderError>>

RegisterPayload(offer) ==
    /\ Quiescent
    /\ payloadRegistry' = Store(payloadRegistry, offer[1], offer[2], offer[3])
    /\ Commit(edges, payloadRegistry', reviewerRegistry, previewInstances,
              dataInstanceCount, FALSE, {}, {})
    /\ UNCHANGED <<edges, reviewerRegistry, assetVars, nodeVars,
                   localPreview, renderError>>

RegisterReviewer(offer) ==
    /\ Quiescent
    /\ reviewerRegistry' = registerReviewerPayload(reviewerRegistry, offer[1],
                                                   offer[2], offer[3])
    /\ Commit(edges, payloadRegistry, reviewerRegistry', previewInstances,
              dataInstanceCount, FALSE, {}, {})
    /\ UNCHANGED <<edges, payloadRegistry, assetVars, nodeVars,
                   localPreview, renderError>>

\* The store's unregisterNode(id) of an upstream node that is deleted.
Without(registry, nodeId) ==
    [k \in {q \in DOMAIN registry : q[1] # nodeId} |-> registry[k]]

UnregisterNode(nodeId) ==
    /\ Quiescent
    /\ payloadRegistry' = Without(payloadRegistry, nodeId)
    /\ reviewerRegistry' = Without(reviewerRegistry, nodeId)
    /\ Commit(edges, payloadRegistry', reviewerRegistry', previewInstances,
              dataInstanceCount, FALSE, {}, {})
    /\ UNCHANGED <<edges, assetVars, nodeVars, localPreview, renderError>>

----------------------------------------------------------------------------
\* The node in a graph that is edited

Init ==
    /\ edges = <<>>
    /\ payloadRegistry = EmptyRegistry
    /\ reviewerRegistry = EmptyRegistry
    /\ psdRegistry = [k \in {"psd1"} |-> Psd1]
    /\ templateRegistry = <<Template1>>
    /\ build \in Builds
    /\ dataInstanceCount = [n \in PreviewNodes |-> 0]
    /\ previewInstances = [n \in PreviewNodes |-> [i \in {} |-> Undefined]]
    /\ closure = [r \in RowsOf(dataInstanceCount) |-> Undefined]
    /\ pendingPublish = {}
    /\ pendingComposite = {}
    /\ localPreview = [r \in RowsOf(dataInstanceCount) |-> Undefined]
    /\ renderError = [r \in RowsOf(dataInstanceCount) |-> Undefined]

\* One step of the node or of a collaborator, the user drawing edges among
\* connectable, the upstream nodes publishing offers and the user adding
\* rows to the nodes of adders.
Step(connectable, rawOffers, reviewerOffers, adders) ==
    \/ \E r \in Rows : PublishEffect(r)
    \/ \E r \in Rows : CompositorEffect(r, TRUE)
    \/ \E r \in Rows, m \in {"PROCEDURAL", "POLISHED"} : handleToggle(r[1], r[2], m)
    \/ \E n \in adders : addInstance(n)
    \/ \E e \in connectable : Connect(e)
    \/ \E j \in 1..Len(edges) : Disconnect(j)
    \/ \E o \in rawOffers : RegisterPayload(o)
    \/ \E o \in reviewerOffers : RegisterReviewer(o)
    \/ \E n \in UpstreamNodes : UnregisterNode(n)

Next == Step(Connectable, RawOffers, ReviewerOffers, {"prevA"})

Spec == Init /\ [][Next]_vars

----------------------------------------------------------------------------
\* Two preview nodes fed by one remapper, the second also wired to a row of
\* the first, which then acts as its reviewer.

ConnectableSlots ==
    {Edge("rem", ResultOut, "prevA", PayloadIn(0)),
     Edge("rem", ResultOut, "prevA", PayloadIn(1)),
     Edge("prevA", PreviewOut(0), "prevB", PayloadIn(0)),
     Edge("rev", PolishedOut, "prevA", PayloadIn(1))}

RawOffersSlots == {<<"rem", ResultOut, RawA>>}

NextSlots == Step(ConnectableSlots, RawOffersSlots, ReviewerOffers, {"prevA"})

SpecSlots == Init /\ [][NextSlots]_vars

----------------------------------------------------------------------------
\* One row wired straight to the remapper, which publishes one payload out of
\* every layer tree of at most MaxLayers layers; the id of a layer is its
\* index path in the tree.

LayerKinds ==
    {[name |-> "logo",  type |-> "pixel",      isVisible |-> TRUE,  x |-> 30, y |-> 40],
     [name |-> "glow",  type |-> "generative", isVisible |-> TRUE,  x |-> 5,  y |-> 60],
     [name |-> "ghost", type |-> "pixel",      isVisible |-> FALSE, x |-> 1,  y |-> 1],
     [name |-> "frame", type |-> "group",      isVisible |-> TRUE,  x |-> 20, y |-> 50]}

\* The forests of exactly n nodes, each node a kind and its children.
RECURSIVE ForestsOf(_)
ForestsOf(n) ==
    IF n = 0 THEN {<<>>}
    ELSE UNION {{<<[kind |-> k, children |-> c]>> \o f :
                    k \in LayerKinds, c \in ForestsOf(m - 1), f \in ForestsOf(n - m)} :
                m \in 1..n}

\* The layers of a forest, the i-th node below prefix getting the id
\* prefix \o <<i>>.
RECURSIVE LabelFrom(_, _, _)
LabelFrom(forest, prefix, i) ==
    IF forest = <<>> THEN <<>>
    ELSE LET node == Head(forest)
         IN  <<Layer(prefix \o <<i>>, node.kind.name, node.kind.type,
                     node.kind.isVisible, node.kind.x, node.kind.y,
                     LabelFrom(node.children, prefix \o <<i>>, 1))>>
             \o LabelFrom(Tail(forest), prefix, i + 1)

CompPayloads ==
    {Payload("hero", LabelFrom(f, <<>>, 1), FALSE) :
        f \in UNION {ForestsOf(n) : n \in 0..MaxLayers}}

\* A decoded PSD with canvases at <<1>> and <<1, 1>> and a layer named "logo",
\* and one without any layer.
PsdDecoded ==
    [children |-> <<[name |-> "bg", canvas |-> 1, children |->
                        <<[name |-> "logo", canvas |-> 2, children |-> <<>>],
                          [name |-> "mask", canvas |-> 0, children |-> <<>>]>>],
                    [name |-> "header", canvas |-> 0, children |-> <<>>]>>]
PsdBare == [children |-> <<>>]
\* A decoded PSD with one canvas, at <<1>>, and no layer named like a layer of
\* the payloads.
PsdPartial == [children |-> <<[name |-> "bg", canvas |-> 1, children |-> <<>>]>>]

Template0 == [containers |-> <<[name |-> "band", bounds |-> [x |-> 9, y |-> 9]]>>]
Template2 == [containers |-> <<[name |-> "side", bounds |-> [x |-> 1, y |-> 1]],
                               [name |-> "hero", bounds |-> [x |-> 7, y |-> 7]]>>]

InitComp ==
    /\ edges = <<Edge("rem", ResultOut, "prevA", PayloadIn(0))>>
    /\ payloadRegistry = EmptyRegistry
    /\ reviewerRegistry = EmptyRegistry
    /\ psdRegistry \in {[k \in {"psd1"} |-> psd] : psd \in {PsdDecoded, PsdBare, PsdPartial}}
    /\ templateRegistry \in {<<>>, <<Template0, Template1, Template2>>}
    /\ build \in Builds
    /\ dataInstanceCount = [n \in PreviewNodes |-> 0]
    /\ previewInstances = [n \in PreviewNodes |-> [i \in {} |-> Undefined]]
    /\ closure = [r \in RowsOf(dataInstanceCount) |-> Undefined]
    /\ pendingPublish = {}
    /\ pendingComposite = {}
    /\ localPreview = [r \in RowsOf(dataInstanceCount) |-> Undefined]
    /\ renderError = [r \in RowsOf(dataInstanceCount) |-> Undefined]

NextComp ==
    \/ \E r \in Rows : PublishEffect(r)
    \/ \E r \in Rows : CompositorEffect(r, TRUE)
    \/ \E p \in CompPayloads :
          /\ payloadRegistry = EmptyRegistry
          /\ RegisterPayload(<<"rem", ResultOut, p>>)

SpecComp == InitComp /\ [][NextComp]_vars

----------------------------------------------------------------------------
\* One row wired straight to the remapper while the PSD is loaded, dropped
\* and loaded again, and the remapper publishes payloads with and without a
\* preview URL and with an empty target.

\* The store's psdRegistry gains or loses the entry of a source node; every
\* row renders again and its compositor effect is queued (psdRegistry is a
\* dependency of the effect).
LoadPsd(sourceNodeId, psd) ==
    /\ Quiescent
    /\ sourceNodeId \notin DOMAIN psdRegistry
    /\ psdRegistry' = [k \in DOMAIN psdRegistry \cup {sourceNodeId} |->
                          IF k = sourceNodeId THEN psd ELSE psdRegistry[k]]
    /\ Commit(edges, payloadRegistry, reviewerRegistry, previewInstances,
              dataInstanceCount, TRUE, {}, {})
    /\ UNCHANGED <<graphVars, templateRegistry, build, nodeVars, localPreview, renderError>>

UnloadPsd(sourceNodeId) ==
    /\ Quiescent
    /\ sourceNodeId \in DOMAIN psdRegistry
    /\ psdRegistry' = [k \in DOMAIN psdRegistry \ {sourceNodeId} |-> psdRegistry[k]]
    /\ Commit(edges, payloadRegistry, reviewerRegistry, previewInstances,
              dataInstanceCount, TRUE, {}, {})
    /\ UNCHANGED <<graphVars, templateRegistry, build, nodeVars, localPreview, renderError>>

\* The store's globalVersion changes: every compositor effect runs again on
\* the payload, PSD and templates it ran on before.
BumpVersion ==
    /\ Quiescent
    /\ Commit(edges, payloadRegistry, reviewerRegistry, previewInstances,
              dataInstanceCount, TRUE, {}, {})
    /\ UNCHANGED <<graphVars, assetVars, nodeVars, localPreview, renderError>>

\* A previewUrl: the image it names is shown as it is.
Url(src) == [kind |-> "url", src |-> src]

RawUrl == [RawA EXCEPT !.previewUrl = Url("ghost.png")]
RawNoWidth == [RawB EXCEPT !.metrics.target.w = 0]
RawNoHeight == [RawB EXCEPT !.metrics.target.h = 0, !.previewUrl = Url("ghost.png")]
AssetPayloads == {RawA, RawB, RawUrl, RawNoWidth, RawNoHeight}

InitAsset ==
    /\ edges = <<Edge("rem", ResultOut, "prevA", PayloadIn(0))>>
    /\ payloadRegistry = EmptyRegistry
    /\ reviewerRegistry = EmptyRegistry
    /\ psdRegistry \in {[k \in {} |-> PsdDecoded], [k \in {"psd1"} |-> PsdDecoded]}
    /\ templateRegistry = <<Template1>>
    /\ build \in Builds
    /\ dataInstanceCount = [n \in PreviewNodes |-> 0]
    /\ previewInstances = [n \in PreviewNodes |-> [i \in {} |-> Undefined]]
    /\ closure = [r \in RowsOf(dataInstanceCount) |-> Undefined]
    /\ pendingPublish = {}
    /\ pendingComposite = {}
    /\ localPreview = [r \in RowsOf(dataInstanceCount) |-> Undefined]
    /\ renderError = [r \in RowsOf(dataInstanceCount) |-> Undefined]

NextAsset ==
    \/ \E r \in Rows : PublishEffect(r)
    \/ \E r \in Rows, ctx \in BOOLEAN : CompositorEffect(r, ctx)
    \/ \E p \in AssetPayloads : RegisterPayload(<<"rem", ResultOut, p>>)
    \/ UnregisterNode("rem")
    \/ \E psd \in {PsdDecoded, PsdPartial} : LoadPsd("psd1", psd)
    \/ UnloadPsd("psd1")
    \/ BumpVersion

SpecAsset == InitAsset /\ [][NextAsset]_vars

\* The payloads of every layer tree again, with the store's globalVersion changing now and then: the
\* compositor effects run again on what they ran on before.
NextRerun == NextComp \/ BumpVersion

SpecRerun == InitComp /\ [][NextRerun]_vars

----------------------------------------------------------------------------
\* One preview node with two rows, the first wired to the remapper's result,
\* the second to a remapper output without a handle id or to the reviewer.

ConnectableViews ==
    {Edge("rem", ResultOut, "prevA", PayloadIn(0)),
     Edge("rem", NullHandle, "prevA", PayloadIn(1)),
     Edge("rev", PolishedOut, "prevA", PayloadIn(1))}

NextViews == Step(ConnectableViews, RawOffers, ReviewerOffers, {"prevA"})

SpecViews == Init /\ [][NextViews]_vars

----------------------------------------------------------------------------
\* Properties of resolution, selection and publishing (specification Spec)

\* Every row a node of the graph can have, mounted or not.
AllRows == PreviewNodes \X (0..MaxInstances)

\* RawRegistry / ApprovedRegistry at the source of an edge.
RawAt(e) == Lookup(payloadRegistry, e.source, OrEmpty(e.sourceHandle))
ApprovedAt(e) == Lookup(reviewerRegistry, e.source, OrEmpty(e.sourceHandle))

\* The entry of the approved registry under a key, Undefined when absent.
Entry(registry, key) == IF key \in DOMAIN registry THEN registry[key] ELSE Undefined

\* C1: strict selection. The displayed payload of every row is the raw
\* candidate in PROCEDURAL mode and the approved candidate in POLISHED mode,
\* absent when that candidate is absent whatever the other candidate is; the
\* payload a row has rendered with is that one once the effects have run.
C1_StrictSelection ==
    \A r \in Rows :
        LET selected == IF activeMode(r) = "POLISHED" THEN polishedPayload(r)
                        ELSE proceduralPayload(r)
        IN  /\ activeMode(r) \in {"PROCEDURAL", "POLISHED"}
            /\ displayPayload(r) = selected
            /\ Quiescent => closure[r] = selected
            /\ (activeMode(r) = "POLISHED" /\ ~isPolishedAvailable(r))
                   => displayPayload(r) = Undefined
            /\ (activeMode(r) = "PROCEDURAL" /\ ~isProceduralAvailable(r))
                   => displayPayload(r) = Undefined

C1_Witness ==
    \E r \in Rows :
        /\ Quiescent
        /\ activeMode(r) = "POLISHED"
        /\ ~isPolishedAvailable(r)
        /\ isProceduralAvailable(r)
        /\ closure[r] = Undefined

\* The step of the publish effect of a row that rendered with a payload.
C2_PublishStep ==
    \A r \in Rows :
        (NextPublish(r) /\ closure[r] # Undefined) =>
            /\ OwnKey(r) \in DOMAIN reviewerRegistry'
            /\ reviewerRegistry'[OwnKey(r)] = [closure[r] EXCEPT !.isPolished = TRUE]
            /\ Published(reviewerRegistry', r, closure[r]) = reviewerRegistry'

\* The entry of a row that displays a payload, once the effects have run.
C2_Published ==
    \A r \in Rows :
        (Quiescent /\ displayPayload(r) # Undefined) =>
            /\ Entry(reviewerRegistry, OwnKey(r)).isPolished
            /\ Entry(reviewerRegistry, OwnKey(r)) =
                   [displayPayload(r) EXCEPT !.isPolished = TRUE]

\* C2: publish result. The step of the publish effect of a row that rendered
\* with a displayed payload leaves, under the row's own key, that payload with
\* isPolished = TRUE, whatever the mode and the entry before; publishing the
\* same payload once more would change nothing. Once the effects have run,
\* every row that displays a payload has its signed copy under its key.
C2_PublishResult == []C2_Published /\ [][C2_PublishStep]_vars

C2_Witness ==
    \E r \in Rows :
        /\ Quiescent
        /\ activeMode(r) = "PROCEDURAL"
        /\ displayPayload(r) # Undefined
        /\ ~displayPayload(r).isPolished
        /\ Entry(reviewerRegistry, OwnKey(r)) =
               [displayPayload(r) EXCEPT !.isPolished = TRUE]

\* A row without an edge into its payload-in handle.
C3_NoCandidates ==
    \A r \in Rows :
        (\A j \in 1..Len(edges) :
            ~(edges[j].target = r[1] /\ edges[j].targetHandle = PayloadIn(r[2]))) =>
            /\ proceduralPayload(r) = Undefined
            /\ polishedPayload(r) = Undefined
            /\ ~isProceduralAvailable(r) /\ ~isPolishedAvailable(r)
            /\ ~ENABLED handleToggle(r[1], r[2], "PROCEDURAL")
            /\ ~ENABLED handleToggle(r[1], r[2], "POLISHED")

\* The publish effect of such a row.
C3_NoWrite ==
    \A r \in Rows :
        ((\A j \in 1..Len(edges) :
            ~(edges[j].target = r[1] /\ edges[j].targetHandle = PayloadIn(r[2])))
         /\ NextPublish(r)) => reviewerRegistry' = reviewerRegistry

\* C3: disconnected row. A row with no edge into its payload-in handle has
\* neither candidate, neither mode button can be used, and the step of its
\* publish effect leaves the approved registry as it is.
C3_Disconnected == []C3_NoCandidates /\ [][C3_NoWrite]_vars

\* A disconnected row next to a connected one that displays a payload.
C3_Witness ==
    \E r \in Rows, q \in Rows :
        /\ \A j \in 1..Len(edges) :
              ~(edges[j].target = r[1] /\ edges[j].targetHandle = PayloadIn(r[2]))
        /\ Quiescent
        /\ r[1] = q[1]
        /\ displayPayload(q) # Undefined
        /\ OwnKey(r) \notin DOMAIN reviewerRegistry

\* What a step may do to the entry under the key of a row.
C4_Step ==
    \A r \in AllRows :
        /\ (r \in Rows /\ NextPublish(r) /\ closure[r] = Undefined)
               => reviewerRegistry' = reviewerRegistry
        /\ Entry(reviewerRegistry', OwnKey(r)) # Entry(reviewerRegistry, OwnKey(r))
               => (r \in Rows /\ NextPublish(r) /\ closure[r] # Undefined)

\* C4: last-known-good. The publish effect of a row that rendered without a
\* displayed payload writes and deletes nothing, and no other step of the
\* node or of a collaborator (mode toggle, edge change, registry change)
\* touches the entry under the row's key: the entry changes only in the
\* publish step of that row with a displayed payload, so it keeps the value
\* of the row's last publish.
C4_LastKnownGood == [][C4_Step]_vars

\* POLISHED selected, approved candidate gone, raw candidate present: the
\* row displays nothing and its earlier publish is still in the registry.
C4_Witness ==
    \E r \in Rows :
        /\ Quiescent
        /\ activeMode(r) = "POLISHED"
        /\ ~isPolishedAvailable(r)
        /\ isProceduralAvailable(r)
        /\ displayPayload(r) = Undefined
        /\ OwnKey(r) \in DOMAIN reviewerRegistry

\* C5: raw candidate. With e the edge into the row and U its source, the
\* input handle of the upstream node is U's handle with "polished-out"
\* rewritten to "payload-in"; when an edge targets (upstream node, that
\* handle) the raw candidate is the raw registry at the source of the first
\* such edge, absent when that entry is missing; only when no such edge
\* exists is it the raw registry at U.
C5_RawCandidate ==
    \A r \in Rows :
        LET into == {j \in 1..Len(edges) :
                        edges[j].target = r[1] /\ edges[j].targetHandle = PayloadIn(r[2])}
            e == edges[CHOOSE j \in into : \A k \in into : j <= k]
            derived == IF e.sourceHandle.name = "polished-out"
                       THEN PayloadIn(e.sourceHandle.idx) ELSE e.sourceHandle
            second == {j \in 1..Len(edges) :
                          /\ e.sourceHandle # NullHandle
                          /\ edges[j].target = e.source
                          /\ edges[j].targetHandle = derived}
        IN  into # {} =>
               IF second # {}
               THEN proceduralPayload(r) =
                        RawAt(edges[CHOOSE j \in second : \A k \in second : j <= k])
               ELSE proceduralPayload(r) = RawAt(e)

\* A second-hop edge whose source has published nothing, while the raw
\* registry holds an entry at U: the raw candidate is absent.
C5_Witness ==
    \E r \in Rows :
        LET e == upstreamEdge(r)
        IN  /\ e # Undefined
            /\ e.sourceHandle = PolishedOut
            /\ \E j \in 1..Len(edges) :
                  /\ edges[j].target = e.source
                  /\ edges[j].targetHandle = PayloadIn(0)
            /\ RawAt(e) # Undefined
            /\ proceduralPayload(r) = Undefined

\* The approved candidate of a connected row.
C6_AtUpstream ==
    \A r \in Rows :
        LET into == {j \in 1..Len(edges) :
                        edges[j].target = r[1] /\ edges[j].targetHandle = PayloadIn(r[2])}
            e == edges[CHOOSE j \in into : \A k \in into : j <= k]
        IN  into # {} =>
               /\ polishedPayload(r) = Entry(reviewerRegistry, <<e.source, OrEmpty(e.sourceHandle)>>)
               /\ isPolishedAvailable(r) <=>
                      <<e.source, OrEmpty(e.sourceHandle)>> \in DOMAIN reviewerRegistry

\* Steps that leave the approved registry and the row's edge alone.
C6_Independent ==
    \A r \in AllRows :
        (reviewerRegistry' = reviewerRegistry /\ upstreamEdge(r)' = upstreamEdge(r))
            => polishedPayload(r)' = polishedPayload(r)

\* C6: approved candidate. It is the approved registry at U, the source of
\* the edge into the row, absent when that entry is absent; a step that
\* leaves the approved registry and that edge alone (a raw registry change,
\* a second-hop edge drawn or removed) leaves it as it is.
C6_ApprovedCandidate == []C6_AtUpstream /\ [][C6_Independent]_vars

\* The approved candidate is present while a second-hop edge leads to a raw
\* entry that differs from it.
C6_Witness ==
    \E r \in Rows :
        /\ isPolishedAvailable(r)
        /\ isProceduralAvailable(r)
        /\ upstreamEdge(r).sourceHandle = PolishedOut
        /\ \E j \in 1..Len(edges) : edges[j].target = upstreamEdge(r).source
        /\ polishedPayload(r) = PolA
        /\ proceduralPayload(r) = RawA

\* What a step of an effect, a toggle or an added row may change.
C7_Step ==
    /\ ~Quiescent =>
          /\ edges' = edges
          /\ payloadRegistry' = payloadRegistry
          /\ assetVars' = assetVars
          /\ \A k \in DOMAIN reviewerRegistry \cup DOMAIN reviewerRegistry' :
                Entry(reviewerRegistry', k) # Entry(reviewerRegistry, k) =>
                    \E r \in Rows :
                        /\ NextPublish(r)
                        /\ k = <<r[1], PreviewOut(r[2])>>
                        /\ \A q \in AllRows \ {r} : k # <<q[1], PreviewOut(q[2])>>
    /\ (dataInstanceCount' # dataInstanceCount \/ previewInstances' # previewInstances)
          => (edges' = edges /\ payloadRegistry' = payloadRegistry
                /\ reviewerRegistry' = reviewerRegistry)

\* C7: exclusive write key. While the effects of the rows run (resolve,
\* select, composite, publish) the edge list, the raw registry and the asset
\* stores stay as they are, and an entry of the approved registry changes
\* only in the publish step of a row, under that row's own key, which is the
\* key of no other row of any node; a mode toggle or an added row changes
\* neither registry nor the edges.
C7_ExclusiveKey == [][C7_Step]_vars

\* Two rows of one node and a row of another node have each published under
\* their own key.
C7_Witness ==
    /\ Quiescent
    /\ \A r \in {<<"prevA", 0>>, <<"prevA", 1>>, <<"prevB", 0>>} :
          /\ r \in Rows
          /\ displayPayload(r) # Undefined
          /\ OwnKey(r) \in DOMAIN reviewerRegistry

----------------------------------------------------------------------------
\* Properties of the compositor (specification SpecComp)

\* The index paths of the layers of a tree.
RECURSIVE PathsOf(_)
PathsOf(layers) ==
    UNION {{<<i>>} \cup {<<i>> \o p : p \in PathsOf(layers[i].children)} :
              i \in 1..Len(layers)}

\* The layer at an index path.
RECURSIVE LayerAt(_, _)
LayerAt(layers, path) ==
    IF Len(path) = 1 THEN layers[path[1]]
    ELSE LayerAt(layers[path[1]].children, Tail(path))

\* The layer at path, or one of its ancestors, is invisible.
Hidden(layers, path) ==
    \E n \in 1..Len(path) : ~LayerAt(layers, SubSeq(path, 1, n)).isVisible

\* b is a proper ancestor of a.
Ancestor(b, a) == Len(b) < Len(a) /\ SubSeq(a, 1, Len(b)) = b

\* a is painted before b: a lies below b, or where their paths part a is in
\* the sibling of higher index.
PaintsBefore(a, b) ==
    \/ Ancestor(b, a)
    \/ \E n \in 1..Len(a) :
          /\ n <= Len(b)
          /\ SubSeq(a, 1, n - 1) = SubSeq(b, 1, n - 1)
          /\ a[n] > b[n]

\* The rows whose image is the composite of the payload they display.
Composited ==
    {r \in Rows : closure[r] # Undefined /\ localPreview[r] # Undefined
                    /\ r \notin pendingComposite}

\* C8: invisibility propagates. In the draw list of a composite no operation
\* is drawn for an invisible layer, nor for any layer below one, visible or
\* not.
C8_InvisiblePruned ==
    \A r \in Composited :
        \A j \in 1..Len(localPreview[r].ops) :
            LET path == localPreview[r].ops[j].layer
            IN  /\ path \in PathsOf(closure[r].layers)
                /\ ~Hidden(closure[r].layers, path)

\* A composite of a tree with a visible layer below an invisible one, next to
\* a layer that is drawn.
C8_Witness ==
    \E r \in Composited :
        /\ Len(localPreview[r].ops) > 0
        /\ \E path \in PathsOf(closure[r].layers) :
              /\ Len(path) > 1
              /\ LayerAt(closure[r].layers, path).isVisible
              /\ ~LayerAt(closure[r].layers, SubSeq(path, 1, Len(path) - 1)).isVisible

\* C9: paint order. The draw list is drawn for layers visible with all their
\* ancestors, every such pixel or generative layer among them, and of two
\* operations the earlier one is for a descendant of the later one's layer,
\* or for a layer in a sibling subtree of higher index (so no layer is drawn
\* twice).
C9_PaintOrder ==
    \A r \in Composited :
        LET ops == localPreview[r].ops
            drawn == {p \in PathsOf(closure[r].layers) : ~Hidden(closure[r].layers, p)}
            opLayers == {ops[j].layer : j \in 1..Len(ops)}
        IN  /\ opLayers \subseteq drawn
            /\ {p \in drawn : LayerAt(closure[r].layers, p).type # "group"}
                   \subseteq opLayers
            /\ \A i, j \in 1..Len(ops) :
                  i < j => PaintsBefore(ops[i].layer, ops[j].layer)

\* A composite that draws a layer with a child and a later sibling.
C9_Witness ==
    \E r \in Composited :
        LET ops == localPreview[r].ops
        IN  /\ Len(ops) = 3
            /\ ops[1].layer = <<2>>
            /\ ops[2].layer = <<1, 1>>
            /\ ops[3].layer = <<1>>

\* C10: origin. The origin is the bounds of the first container, in template
\* order, named payload.targetContainer; without one it is (min x, min y),
\* each taken on its own over the layers visible with all their ancestors,
\* and (0, 0) when there is none. Every operation is drawn at the layer's
\* coordinates less that origin.
C10_Origin ==
    \A r \in Rows :
        closure[r] # Undefined =>
            LET layers == closure[r].layers
                found == {c \in (1..Len(templateRegistry)) \X (1..2) :
                             /\ c[2] <= Len(templateRegistry[c[1]].containers)
                             /\ templateRegistry[c[1]].containers[c[2]].name
                                    = closure[r].targetContainer}
                first == CHOOSE c \in found :
                             \A d \in found : c[1] < d[1] \/ (c[1] = d[1] /\ c[2] <= d[2])
                seen == {p \in PathsOf(layers) : ~Hidden(layers, p)}
                xs == {LayerAt(layers, p).coords.x : p \in seen}
                ys == {LayerAt(layers, p).coords.y : p \in seen}
                expected ==
                    IF found # {}
                    THEN [x |-> templateRegistry[first[1]].containers[first[2]].bounds.x,
                          y |-> templateRegistry[first[1]].containers[first[2]].bounds.y]
                    ELSE IF seen = {} THEN [x |-> 0, y |-> 0]
                    ELSE [x |-> CHOOSE x \in xs : \A z \in xs : x <= z,
                          y |-> CHOOSE y \in ys : \A z \in ys : y <= z]
            IN  /\ Origin(closure[r], templateRegistry) = expected
                /\ r \in Composited =>
                      \A j \in 1..Len(localPreview[r].ops) :
                          LET op == localPreview[r].ops[j]
                          IN  /\ op.x = LayerAt(layers, op.layer).coords.x - expected.x
                              /\ op.y = LayerAt(layers, op.layer).coords.y - expected.y

\* No container matches; visible layers at (30,40) and (5,60) and an
\* invisible one at (1,1): the origin is (5,40).
C10_Witness ==
    \E r \in Composited :
        /\ templateRegistry = <<>>
        /\ Len(closure[r].layers) = 3
        /\ ~closure[r].layers[2].isVisible
        /\ Len(localPreview[r].ops) = 2
        /\ \E j \in 1..2 : /\ localPreview[r].ops[j].x = 25
                           /\ localPreview[r].ops[j].y = 0
        /\ \E j \in 1..2 : /\ localPreview[r].ops[j].x = 0
                           /\ localPreview[r].ops[j].y = 20

\* A container of the templates is named like the payload's target: the
\* origin is the bounds of the first one.
C10_WitnessContainer ==
    \E r \in Composited :
        /\ Len(templateRegistry) = 3
        /\ Origin(closure[r], templateRegistry) = [x |-> 2, y |-> 3]
        /\ Len(localPreview[r].ops) > 0

----------------------------------------------------------------------------
\* Properties of the compositor's outcomes (specification SpecAsset)

\* The displayed payload of a row has a target without width or height and
\* its PSD is decoded.
ZeroSized(r) ==
    /\ displayPayload(r) # Undefined
    /\ displayPayload(r).sourceNodeId \in DOMAIN psdRegistry
    /\ \/ displayPayload(r).metrics.target.w = 0
       \/ displayPayload(r).metrics.target.h = 0

\* C11: zero-size target. Once the effects have run, a row whose displayed
\* payload has a target of width 0 or height 0 (its PSD decoded) shows the
\* "Synthesizing..." state, whatever it showed for the payload before.
C11_ZeroSizePending ==
    \A r \in Rows :
        (Quiescent /\ ZeroSized(r)) => visualization(r) = [kind |-> "synthesizing"]

\* The displayed payload of a row names a PSD that is not decoded.
AssetMissing(r) ==
    /\ displayPayload(r) # Undefined
    /\ displayPayload(r).sourceNodeId \notin DOMAIN psdRegistry

\* C12: asset-missing outcome. Once the effects have run, a row whose
\* displayed payload names a PSD that is not in the registry shows the
\* payload's previewUrl when it has one, and otherwise the binary-missing
\* error.
C12_AssetMissing ==
    \A r \in Rows :
        (Quiescent /\ AssetMissing(r)) =>
            IF displayPayload(r).previewUrl # Undefined
            THEN visualization(r) = [kind |-> "image", src |-> displayPayload(r).previewUrl]
            ELSE visualization(r) = [kind |-> "error", message |-> BinaryMissing]

\* C13: asset-missing keeps the prior image. The compositor effect of a row
\* whose displayed payload has no previewUrl and names a PSD that is no
\* longer in the registry leaves the row's image as it was.
C13_KeepsPriorImage ==
    [][\A r \in Rows :
          (/\ NextComposite(r)
           /\ closure[r] # Undefined
           /\ closure[r].sourceNodeId \notin DOMAIN psdRegistry
           /\ closure[r].previewUrl = Undefined)
          => localPreview'[r] = localPreview[r]]_vars

----------------------------------------------------------------------------
\* Properties of the draw operations (specification SpecComp)

\* The PSD a row's displayed payload is composited from.
PsdOf(r) == psdRegistry[closure[r].sourceNodeId]

\* The lookup of a layer's pixels by its id: the decoded layer at that path
\* has a canvas.
FoundById(psd, layer) ==
    /\ layer.id \in PathsOf(psd.children)
    /\ LayerAt(psd.children, layer.id).canvas # 0

\* The decoded layers, anywhere in the tree, that have the layer's name and a
\* canvas, as paths.
NamedLike(psd, layer) ==
    {q \in PathsOf(psd.children) :
        /\ LayerAt(psd.children, q).name = layer.name
        /\ LayerAt(psd.children, q).canvas # 0}

\* The paths of the layers of a row's payload that are visible with all
\* their ancestors.
Shown(r) == {p \in PathsOf(closure[r].layers) : ~Hidden(closure[r].layers, p)}

\* The draw operations of a row's image for the layer at a path.
OpsFor(r, path) ==
    {j \in 1..Len(localPreview[r].ops) : localPreview[r].ops[j].layer = path}

\* C14: layer-missing is local. Once the effects have run on a payload whose
\* PSD is decoded, the row has an image and no error; in it every shown pixel
\* layer whose pixels are found neither by id nor by name is drawn as one
\* wireframe rectangle at (x - originX, y - originY, w, h), and every other
\* shown pixel or generative layer is drawn too.
C14_LayerMissingLocal ==
    \A r \in Rows :
        (Quiescent /\ closure[r] # Undefined) =>
            LET layers == closure[r].layers
                origin == Origin(closure[r], templateRegistry)
            IN  /\ renderError[r] = Undefined
                /\ localPreview[r] # Undefined
                /\ localPreview[r].kind = "canvas"
                /\ \A p \in Shown(r) :
                      LET layer == LayerAt(layers, p)
                      IN  /\ layer.type # "group" => Cardinality(OpsFor(r, p)) = 1
                          /\ (/\ layer.type = "pixel"
                              /\ ~FoundById(PsdOf(r), layer)
                              /\ NamedLike(PsdOf(r), layer) = {})
                             => \A j \in OpsFor(r, p) :
                                   LET op == localPreview[r].ops[j]
                                   IN  /\ op.kind = "wireframe"
                                       /\ op.x = layer.coords.x - origin.x
                                       /\ op.y = layer.coords.y - origin.y
                                       /\ op.w = layer.coords.w
                                       /\ op.h = layer.coords.h

\* An image with a wireframe for a pixel layer that is found neither way,
\* drawn off the origin, before the image of a pixel layer that is found.
C14_Witness ==
    \E r \in Rows :
        /\ Quiescent /\ closure[r] # Undefined /\ renderError[r] = Undefined
        /\ PsdOf(r) = PsdPartial
        /\ \E i, j \in 1..Len(localPreview[r].ops) :
              /\ i < j
              /\ localPreview[r].ops[i].kind = "wireframe"
              /\ localPreview[r].ops[i].x # LayerAt(closure[r].layers,
                                                   localPreview[r].ops[i].layer).coords.x
              /\ LayerAt(closure[r].layers, localPreview[r].ops[i].layer).type = "pixel"
              /\ localPreview[r].ops[j].kind = "image"

----------------------------------------------------------------------------
\* Properties of what a row shows (specification SpecViews)

\* (a) no edge into the row's input handle
NoEdge(r) == upstreamEdge(r) = Undefined
\* (b) an edge, and no registry entry for the active mode
EntryAbsent(r) == upstreamEdge(r) # Undefined /\ displayPayload(r) = Undefined
\* (c) an entry whose targetContainer is a container of no template
WrongContainer(r) ==
    /\ displayPayload(r) # Undefined
    /\ FirstContainer(templateRegistry, displayPayload(r).targetContainer) = Undefined

\* C15: three distinct UI states. A row without an edge shows the unlit
\* handle, "Connect Reviewer" and "Waiting for Payload..."; a row with an
\* edge and no entry for its mode shows the lit handle, "Connected" and
\* "Waiting for Payload..."; a row whose entry names a container of no
\* template shows the lit handle, that container's name, the dimensions and
\* its image. The three differ from one another, and so do the views of any
\* two rows that are in different conditions.
C15_DistinctStates ==
    /\ \A r \in Rows :
          /\ NoEdge(r) =>
                /\ ~rowView(r).connected /\ rowView(r).label = "Connect Reviewer"
                /\ ~rowView(r).stats
                /\ Quiescent => rowView(r).area = [kind |-> "waiting"]
          /\ EntryAbsent(r) =>
                /\ rowView(r).connected /\ rowView(r).label = "Connected"
                /\ ~rowView(r).stats
                /\ Quiescent => rowView(r).area = [kind |-> "waiting"]
          /\ WrongContainer(r) =>
                /\ rowView(r).connected
                /\ rowView(r).label = displayPayload(r).targetContainer
                /\ rowView(r).label \notin {"Connect Reviewer", "Connected"}
                /\ rowView(r).stats
                /\ Quiescent => rowView(r).area.kind = "image"
    /\ \A r, q \in Rows :
          \/ (NoEdge(r) /\ EntryAbsent(q))
          \/ (NoEdge(r) /\ WrongContainer(q))
          \/ (EntryAbsent(r) /\ WrongContainer(q))
          => rowView(r) # rowView(q)

\* The three conditions side by side in the rows of one graph.
C15_Witness ==
    /\ Quiescent
    /\ \E r, q, t \in Rows : NoEdge(r) /\ EntryAbsent(q) /\ WrongContainer(t)

----------------------------------------------------------------------------
\* Properties of the mode buttons and the rows (specification Spec)

\* The edge into a row is there and the registry holds an entry where the
\* resolver of that candidate looks.
RawPresent(r) == upstreamEdge(r) # Undefined /\ proceduralPayload(r) # Undefined
ApprovedPresent(r) ==
    /\ upstreamEdge(r) # Undefined
    /\ <<upstreamEdge(r).source, OrEmpty(upstreamEdge(r).sourceHandle)>>
           \in DOMAIN reviewerRegistry

\* C16: availability flags. For every row the procedural flag holds exactly
\* when the raw candidate is present and the polished flag exactly when the
\* approved candidate is present; the button of a mode is disabled, and a
\* toggle to that mode impossible, exactly when the mode's candidate is
\* absent, whatever the active mode and the other candidate are.
C16_Availability ==
    \A r \in Rows :
        /\ isProceduralAvailable(r) <=> RawPresent(r)
        /\ isPolishedAvailable(r) <=> ApprovedPresent(r)
        /\ rowView(r).proceduralDisabled <=> ~RawPresent(r)
        /\ rowView(r).polishedDisabled <=> ~ApprovedPresent(r)
        /\ Quiescent =>
              /\ ENABLED handleToggle(r[1], r[2], "PROCEDURAL") <=> RawPresent(r)
              /\ ENABLED handleToggle(r[1], r[2], "POLISHED") <=> ApprovedPresent(r)

\* A connected row in POLISHED mode whose approved candidate is gone and
\* whose raw candidate is there: it displays nothing and offers PROCEDURAL.
C16_Witness ==
    \E r \in Rows :
        /\ Quiescent
        /\ upstreamEdge(r) # Undefined
        /\ activeMode(r) = "POLISHED"
        /\ ~ApprovedPresent(r) /\ RawPresent(r)
        /\ displayPayload(r) = Undefined
        /\ rowView(r).polishedDisabled /\ ~rowView(r).proceduralDisabled
        /\ ENABLED handleToggle(r[1], r[2], "PROCEDURAL")

\* The mode of the row at an index of a node under given node data.
ModeIn(instances, nodeId, index) == RowState(instances[nodeId], index).currentMode

\* What a step does to the rows: none disappears, and when the count of a
\* node changes it grows by one, the new row is in PROCEDURAL mode and the
\* rows that were there keep their mode.
C17_Step ==
    /\ RowsOf(dataInstanceCount) \subseteq RowsOf(dataInstanceCount')
    /\ \A n \in PreviewNodes :
          LET before == InstanceCountOf(dataInstanceCount[n])
              after == InstanceCountOf(dataInstanceCount'[n])
          IN  /\ after >= before
              /\ after # before =>
                    /\ after = before + 1
                    /\ ModeIn(previewInstances', n, before) = "PROCEDURAL"
                    /\ \A i \in 0..(before - 1) :
                          ModeIn(previewInstances', n, i) = ModeIn(previewInstances, n, i)

\* C17: slots only accumulate. The add-slot action appends one row in
\* PROCEDURAL mode and leaves the mode of every other row as it is; no step
\* lowers the row count of a node or removes a row.
C17_SlotsAccumulate == [][C17_Step]_vars

\* A second row, in PROCEDURAL mode, next to a first row that is in POLISHED
\* mode.
C17_Witness ==
    /\ instanceCount("prevA") = 2
    /\ activeMode(<<"prevA", 0>>) = "POLISHED"
    /\ activeMode(<<"prevA", 1>>) = "PROCEDURAL"
    /\ dataInstanceCount["prevA"] = 2

----------------------------------------------------------------------------
\* Properties of repeated composites (specification SpecRerun)

\* C18: compositing is deterministic. When the compositor effect of a row
\* runs again on the payload, the PSD and the templates of its run before,
\* the image it sets, with its draw operations (layers, rectangles,
\* rotations, opacities, off the same origin), is the image of the run
\* before.
C18_Deterministic ==
    [][\A r \in Rows :
          (/\ NextComposite(r)
           /\ closure[r] # Undefined
           /\ localPreview[r] # Undefined)
          => /\ localPreview'[r] = localPreview[r]
             /\ renderError'[r] = renderError[r]]_vars

\* The effect is queued again for a row that shows the composite of a
\* payload with several draw operations.
C18_Witness ==
    \E r \in Rows :
        /\ NextComposite(r)
        /\ closure[r] # Undefined
        /\ localPreview[r] # Undefined
        /\ Len(localPreview[r].ops) > 1

----------------------------------------------------------------------------
\* Properties of the pixel lookup (specification SpecComp)

\* Path a comes before path b in the order the recursive search visits the
\* decoded layers: a layer before its children, a subtree before the next
\* sibling.
VisitedBefore(a, b) ==
    \/ Ancestor(a, b)
    \/ \E n \in 1..Len(a) :
          /\ n <= Len(b)
          /\ SubSeq(a, 1, n - 1) = SubSeq(b, 1, n - 1)
          /\ a[n] < b[n]

\* The pixel buffer of a layer: the canvas of the decoded layer at its id,
\* else that of the first decoded layer of its name that has one; 0 when
\* there is none.
ExpectedBuffer(psd, layer) ==
    IF FoundById(psd, layer) THEN LayerAt(psd.children, layer.id).canvas
    ELSE IF NamedLike(psd, layer) = {} THEN 0
    ELSE LayerAt(psd.children,
                 CHOOSE q \in NamedLike(psd, layer) :
                     \A o \in NamedLike(psd, layer) : o = q \/ VisitedBefore(q, o)).canvas

\* C19: pixel lookup and placement. In the image of a row every shown pixel
\* layer whose buffer is found, by id or else by name, is drawn once, as that
\* buffer, with its top-left corner at (x - originX, y - originY), its size
\* w x h and its opacity.
C19_PixelLookup ==
    \A r \in Rows :
        (Quiescent /\ closure[r] # Undefined) =>
            LET layers == closure[r].layers
                origin == Origin(closure[r], templateRegistry)
            IN  \A p \in Shown(r) :
                    LET layer == LayerAt(layers, p)
                        buffer == ExpectedBuffer(PsdOf(r), layer)
                    IN  (layer.type = "pixel" /\ buffer # 0) =>
                           /\ Cardinality(OpsFor(r, p)) = 1
                           /\ \A j \in OpsFor(r, p) :
                                 localPreview[r].ops[j] =
                                    [kind |-> "image", layer |-> p, source |-> buffer,
                                     x |-> layer.coords.x - origin.x,
                                     y |-> layer.coords.y - origin.y,
                                     w |-> layer.coords.w, h |-> layer.coords.h,
                                     rotation |-> layer.transform.rotation,
                                     alpha |-> layer.opacity, label |-> FALSE]

\* C20: groups carry no pixels. In the image of a row no draw operation is
\* drawn for a shown group layer itself.
C20_GroupsDrawNothing ==
    \A r \in Rows :
        (Quiescent /\ closure[r] # Undefined) =>
            \A p \in Shown(r) :
                LayerAt(closure[r].layers, p).type = "group" => OpsFor(r, p) = {}

----------------------------------------------------------------------------
\* Rows wired to each other. The row of prevA and the row of prevB each
\* take the reviewer's output first and the other row's output second; the
\* user can also wire the row of prevA to its own output, rewire, and delete
\* the reviewer. React runs every queued effect, which is the fairness of
\* the effect steps.

PolishedOut1 == Handle("polished-out", 1)
PolB == Payload("band", <<Layer(<<1>>, "logo", "pixel", TRUE, 30, 40, <<>>)>>, TRUE)

ConnectableLoop ==
    {Edge("rev", PolishedOut, "prevA", PayloadIn(0)),
     Edge("prevA", PreviewOut(0), "prevA", PayloadIn(0)),
     Edge("prevA", PreviewOut(0), "prevB", PayloadIn(0)),
     Edge("prevB", PreviewOut(0), "prevA", PayloadIn(0))}

RawOffersLoop == {<<"rev", PolishedOut, RawB>>}
ReviewerOffersLoop == {<<"rev", PolishedOut, PolA>>, <<"rev", PolishedOut1, PolB>>}

\* The user deletes a node: the graph service drops the node's edges in one
\* change of the edge list, and the node's unmount unregisters its entries.
DeleteNode(nodeId) ==
    /\ Quiescent
    /\ edges' = SelectSeq(edges, LAMBDA e : e.source # nodeId /\ e.target # nodeId)
    /\ edges' # edges
    /\ payloadRegistry' = Without(payloadRegistry, nodeId)
    /\ reviewerRegistry' = Without(reviewerRegistry, nodeId)
    /\ Commit(edges', payloadRegistry', reviewerRegistry', previewInstances,
              dataInstanceCount, FALSE, {}, {})
    /\ UNCHANGED <<assetVars, nodeVars, localPreview, renderError>>

InitLoop ==
    /\ edges = <<Edge("rev", PolishedOut, "prevA", PayloadIn(0)),
                 Edge("prevB", PreviewOut(0), "prevA", PayloadIn(0)),
                 Edge("rev", PolishedOut1, "prevB", PayloadIn(0)),
                 Edge("prevA", PreviewOut(0), "prevB", PayloadIn(0))>>
    /\ payloadRegistry = EmptyRegistry
    /\ reviewerRegistry = EmptyRegistry
    /\ psdRegistry = [k \in {"psd1"} |-> Psd1]
    /\ templateRegistry = <<Template1>>
    /\ build \in Builds
    /\ dataInstanceCount = [n \in PreviewNodes |-> 0]
    /\ previewInstances = [n \in PreviewNodes |-> [i \in {} |-> Undefined]]
    /\ closure = [r \in RowsOf(dataInstanceCount) |-> Undefined]
    /\ pendingPublish = {}
    /\ pendingComposite = {}
    /\ localPreview = [r \in RowsOf(dataInstanceCount) |-> Undefined]
    /\ renderError = [r \in RowsOf(dataInstanceCount) |-> Undefined]

NextLoop ==
    \/ Step(ConnectableLoop, RawOffersLoop, ReviewerOffersLoop, {"prevA"})
    \/ DeleteNode("rev")

SpecLoop ==
    /\ InitLoop /\ [][NextLoop]_vars
    /\ WF_vars(\E r \in Rows : PublishEffect(r))
    /\ WF_vars(\E r \in Rows : CompositorEffect(r, TRUE))

----------------------------------------------------------------------------
\* The "add" button pressed several times before the node renders again.

MaxBatch == 2

\* The node data after k updaters of addInstance ran in a row: each writes
\* instanceCount + 1 with the instanceCount of the render that made the
\* handler, whatever the node data holds by then.
RECURSIVE AddedCount(_, _, _)
AddedCount(count, rendered, k) ==
    IF k = 0 THEN count ELSE AddedCount(rendered + 1, rendered, k - 1)

addInstanceBatch(nodeId, k) ==
    /\ Quiescent
    /\ LET counts == [dataInstanceCount EXCEPT ![nodeId] =
                         AddedCount(dataInstanceCount[nodeId], instanceCount(nodeId), k)]
       IN  /\ counts[nodeId] <= MaxInstances
           /\ dataInstanceCount' = counts
           /\ localPreview' = Mounted(localPreview, counts)
           /\ renderError' = Mounted(renderError, counts)
           /\ Commit(edges, payloadRegistry, reviewerRegistry, previewInstances,
                     counts, FALSE, {}, {})
    /\ UNCHANGED <<graphVars, assetVars, previewInstances>>

NextAdds ==
    \/ NextViews
    \/ \E k \in 1..MaxBatch : addInstanceBatch("prevA", k)

SpecAdds == Init /\ [][NextAdds]_vars

----------------------------------------------------------------------------
\* Properties of a row that loses its payload, and of the modes

\* C21: pending retains the stale image. The compositor effect of a row that
\* has an edge into its input, displays no payload any more and has an image
\* from before leaves that image as the row's image.
C21_PendingRetains ==
    [][\A r \in Rows :
          (/\ NextComposite(r)
           /\ upstreamEdge(r) # Undefined
           /\ closure[r] = Undefined
           /\ localPreview[r] # Undefined)
          => localPreview'[r] = localPreview[r]]_vars

\* The rows, mounted or not, whose mode a step changes.
ModeChanged ==
    {r \in AllRows : ModeIn(previewInstances', r[1], r[2])
                        # ModeIn(previewInstances, r[1], r[2])}

\* C22: mode state is per slot and changes only on request. A toggle of a
\* row to a mode leaves that row in that mode and every other row, and the
\* row counts, as they were; a step that changes the edges, a registry, the
\* PSDs or a row count changes the mode of no row, and no step changes the
\* mode of two rows.
C22_ModePerSlot ==
    [][/\ \A r \in Rows, m \in {"PROCEDURAL", "POLISHED"} :
             handleToggle(r[1], r[2], m) =>
                 /\ ModeIn(previewInstances', r[1], r[2]) = m
                 /\ ModeChanged \subseteq {r}
                 /\ dataInstanceCount' = dataInstanceCount
       /\ Cardinality(ModeChanged) <= 1
       /\ ModeChanged # {} =>
             /\ ModeChanged \subseteq Rows
             /\ graphVars' = graphVars /\ assetVars' = assetVars
             /\ dataInstanceCount' = dataInstanceCount]_vars

\* Two rows of a node, each toggled, now in different modes.
C22_Witness ==
    /\ DOMAIN previewInstances["prevA"] = {0, 1}
    /\ activeMode(<<"prevA", 0>>) = "PROCEDURAL"
    /\ activeMode(<<"prevA", 1>>) = "POLISHED"
    /\ ~isPolishedAvailable(<<"prevA", 1>>)

\* No publish effect that could still run changes the approved registry.
PublishSettled ==
    \A r \in Rows : Published(reviewerRegistry, r, displayPayload(r)) = reviewerRegistry

\* C23: publish loop quiescence. Whatever the wiring, rows reading their own
\* or each other's output included, the effects that follow a change of the
\* inputs come to an end, and at that point no publish of any row changes
\* the value of an entry of the approved registry.
C23_Quiescence ==
    /\ []<>Quiescent
    /\ [](Quiescent => PublishSettled)

\* C24: no lost add-slot. k presses of "add", all before the node renders
\* again, leave the node with k more rows.
C24_NoLostAdd ==
    [][\A n \in PreviewNodes, k \in 1..MaxBatch :
          addInstanceBatch(n, k) =>
              InstanceCountOf(dataInstanceCount'[n]) = instanceCount(n) + k]_vars

====
